---- MODULE Spec2Model ----
(***************************************************************************)
(* Buffer lifecycle of readpassphrase-3 (src/src/lib.rs): the borrow shape *)
(* readpassphrase, the transfer shape readpassphrase_into, getpass, the    *)
(* IntoError value (take, into_bytes, Drop, From) and Zeroize.             *)
(*                                                                         *)
(* One allocation is followed through its life.  mem is the content of its *)
(* `cap` bytes (kept after the release, so that what was in it when it was *)
(* released stays visible); a Vec<u8> or String is a handle on it with a   *)
(* logical length.  Bytes are numbers 0..255.                              *)
(***************************************************************************)
EXTENDS Integers, Sequences, FiniteSets

VARIABLES
    mem,        \* the bytes of the allocation, 1..cap
    cap,        \* its capacity
    stale,      \* the byte value the allocation held before the entry call
    callerBuf,  \* the Vec the caller holds and passes to the entry call
    okText,     \* the String returned by readpassphrase_into / getpass
    errBuf,     \* IntoError.1 : Option<Vec<u8>>
    err0,       \* IntoError.0 : Error
    errState,   \* "none" | "live" | "dropped" : the IntoError value
    reclaims,   \* outcomes of take / into_bytes on the IntoError, in order
    frees,      \* how many times the allocation was released
    ret,        \* what the last fallible call gave its caller
    prim,       \* what ffi::readpassphrase did in the entry call
    pc,         \* "start" | "returned" | "borrowed" | "gotpass"
    op          \* the last operation performed

vars == <<mem, cap, stale, callerBuf, okText, errBuf, err0, errState,
          reclaims, frees, ret, prim, pc, op>>

----------------------------------------------------------------------------
(* Bounds *)

\* largest capacity of a caller-supplied buffer
MaxCap == 4
\* longest secret enumerated byte by byte (a run filling the buffer is added)
MaxRun == 3
\* most reclaim attempts (take / into_bytes) on one IntoError
MaxReclaims == 3

(* Program constant *)
PASSWORD_LEN == 256

\* 'a', and the two bytes of U+00E9: alone each of them is invalid UTF-8
NonZeroBytes == {97, 195, 169}
StaleBytes == {0, 97}

Min(a, b) == IF a < b THEN a ELSE b

AllZero(m) == \A i \in 1..Len(m) : m[i] = 0

----------------------------------------------------------------------------
(* Values *)

\* Option::None, and Vec::new(): no allocation, length 0, capacity 0
NoVec == [some |-> FALSE, alloc |-> FALSE, len |-> 0, cap |-> 0]
EmptyVec == [some |-> TRUE, alloc |-> FALSE, len |-> 0, cap |-> 0]
\* a Vec or String on the followed allocation
Handle(l, c) == [some |-> TRUE, alloc |-> TRUE, len |-> l, cap |-> c]

NoError == [variant |-> "None", os |-> "none", valid_up_to |-> 0]
\* Error::Io(io::Error::last_os_error())
IoError(errno) == [variant |-> "Io", os |-> errno, valid_up_to |-> 0]
\* Error::Utf8(Utf8Error)
Utf8Error(n) == [variant |-> "Utf8", os |-> "none", valid_up_to |-> n]
\* Error::Io(io::ErrorKind::Other.into()), left behind by From<IntoError>
Placeholder == [variant |-> "Io", os |-> "none", valid_up_to |-> 0]

\* io::Error::kind()
IoKind(e) ==
    IF e.variant # "Io" THEN "NotIo"
    ELSE IF e.os = "EINVAL" THEN "InvalidInput"
    ELSE IF e.os = "EINTR" THEN "Interrupted"
    ELSE IF e.os = "none" THEN "Other"
    ELSE "Uncategorized"

NoPrim == [null |-> FALSE, errno |-> "none", wrote |-> FALSE, run |-> <<>>]
NoRet == [tag |-> "None", len |-> 0, err |-> NoError, scanned |-> 0]

----------------------------------------------------------------------------
(* The external primitive readpassphrase(3) *)

\* the secrets the primitive may leave in a buffer of bufsiz >= 1 bytes
Runs(bufsiz) ==
    UNION {[1..n -> NonZeroBytes] : n \in 0..Min(MaxRun, bufsiz - 1)}
        \cup {[i \in 1..(bufsiz - 1) |-> 97]}

\* Success: up to bufsiz - 1 bytes and a zero byte, non-null result.
\* Failure: null and errno, the buffer untouched or holding what was read.
\* With bufsiz = 0 nothing can be written: readpassphrase(3) returns null
\* with EINVAL; tests::test_empty expects no particular kind of error on
\* Windows; a primitive returning non-null there is the third outcome.
PrimOutcomes(bufsiz) ==
    IF bufsiz = 0
    THEN {[null |-> TRUE, errno |-> e, wrote |-> FALSE, run |-> <<>>] :
              e \in {"EINVAL", "EIO"}}
         \cup {[null |-> FALSE, errno |-> "none", wrote |-> FALSE,
                 run |-> <<>>]}
    ELSE {[null |-> FALSE, errno |-> "none", wrote |-> TRUE, run |-> r] :
              r \in Runs(bufsiz)}
         \cup {[null |-> TRUE, errno |-> e, wrote |-> FALSE, run |-> <<>>] :
              e \in {"ENOTTY", "EINTR"}}
         \cup {[null |-> TRUE, errno |-> "EINTR", wrote |-> TRUE, run |-> r] :
              r \in Runs(bufsiz)}

\* the allocation after the primitive wrote p.run and the terminator
PrimWrite(m, p) ==
    IF p.wrote
    THEN [i \in 1..Len(m) |->
             IF i <= Len(p.run) THEN p.run[i]
             ELSE IF i = Len(p.run) + 1 THEN 0
             ELSE m[i]]
    ELSE m

----------------------------------------------------------------------------
(* Pure functions of the library *)

\* str::from_utf8: the length of a UTF-8 sequence led by byte b, 0 if b
\* cannot lead one
Utf8CharWidth(b) ==
    IF b < 128 THEN 1
    ELSE IF b >= 194 /\ b <= 223 THEN 2
    ELSE IF b >= 224 /\ b <= 239 THEN 3
    ELSE IF b >= 240 /\ b <= 244 THEN 4
    ELSE 0

IsCont(b) == b >= 128 /\ b <= 191

\* the bytes after the lead byte s[i] of a w-byte sequence are acceptable
Utf8SeqOk(s, i, w) ==
    /\ \A k \in 1..(w - 1) : IsCont(s[i + k])
    /\ (s[i] = 224 => s[i + 1] >= 160)
    /\ (s[i] = 237 => s[i + 1] <= 159)
    /\ (s[i] = 240 => s[i + 1] >= 144)
    /\ (s[i] = 244 => s[i + 1] <= 143)

\* byte i of s starts a well-formed sequence that fits in s
Utf8CharOk(s, i) ==
    LET w == Utf8CharWidth(s[i])
    IN  w > 0 /\ i + w - 1 <= Len(s) /\ Utf8SeqOk(s, i, w)

\* continuation byte j of s lies inside the sequence of the nearest lead byte
Utf8Covered(s, j) ==
    \E i \in 1..(j - 1) :
        /\ j - i <= 3
        /\ ~IsCont(s[i])
        /\ \A k \in (i + 1)..j : IsCont(s[k])
        /\ j <= i + Utf8CharWidth(s[i]) - 1

\* the decoder stops at byte j: a stray continuation byte, or a lead byte
\* whose sequence is malformed or cut short
Utf8Bad(s, j) ==
    IF IsCont(s[j]) THEN ~Utf8Covered(s, j) ELSE ~Utf8CharOk(s, j)

\* Utf8Error::valid_up_to: the bytes before the first sequence the decoder
\* rejects; Len(s) when s is valid
Utf8Scan(s) ==
    IF \E j \in 1..Len(s) : Utf8Bad(s, j)
    THEN (CHOOSE j \in 1..Len(s) :
             Utf8Bad(s, j) /\ \A k \in 1..(j - 1) : ~Utf8Bad(s, k)) - 1
    ELSE Len(s)

Utf8ValidUpTo(s) == Utf8Scan(s)
IsUtf8(s) == Utf8ValidUpTo(s) = Len(s)

\* a search that found nothing
NoPos == -1

\* mutant: the 1-based index of the zero byte, one past its position
ScanNul_OnePast(m, bufsiz) ==
    IF \E i \in 1..bufsiz : m[i] = 0
    THEN CHOOSE i \in 1..bufsiz :
             m[i] = 0 /\ \A j \in 1..(i - 1) : m[j] # 0
    ELSE NoPos

\* mutant: position 0 when no zero byte is found (unwrap_or_default)
ScanNul_OrZero(m, bufsiz) ==
    IF \E i \in 1..bufsiz : m[i] = 0
    THEN (CHOOSE i \in 1..bufsiz :
             m[i] = 0 /\ \A j \in 1..(i - 1) : m[j] # 0) - 1
    ELSE 0

\* (0..bufsiz).position(|i| buf[i] == 0), and CStr::from_bytes_until_nul:
\* the 0-based position of the first zero byte among the first bufsiz bytes
ScanNul(m, bufsiz) ==
    IF \E i \in 1..bufsiz : m[i] = 0
    THEN (CHOOSE i \in 1..bufsiz :
             m[i] = 0 /\ \A j \in 1..(i - 1) : m[j] # 0) - 1
    ELSE NoPos

\* the number of bytes the search reads
Scanned(m, bufsiz) ==
    IF ScanNul(m, bufsiz) = NoPos THEN bufsiz ELSE ScanNul(m, bufsiz) + 1

\* Vec::clear
VecClear(v) == [v EXCEPT !.len = 0]
\* Vec::set_len
SetLen(v, n) == [v EXCEPT !.len = n]

\* mutant: the spare capacity is taken and filled before the clear, so the
\* bytes inside the old logical length keep their values
ZeroizeVec_FillThenClear(m, v) ==
    [vec |-> VecClear(v),
     mem |-> [i \in 1..Len(m) |-> IF i > v.len /\ i <= v.cap THEN 0 ELSE m[i]]]

\* Zeroize for Vec<u8>: clear, then fill spare_capacity_mut() with zero
ZeroizeVec(m, v) ==
    LET c == VecClear(v)
    IN  [vec |-> c,
         mem |-> [i \in 1..Len(m) |->
                     IF i > c.len /\ i <= c.cap THEN 0 ELSE m[i]]]

\* Zeroize for String: as_mut_vec().zeroize()
ZeroizeString(m, s) == ZeroizeVec(m, s)

----------------------------------------------------------------------------
(* readpassphrase_into, readpassphrase *)

\* what an entry call produces: the allocation, Ok / Err / Panic, the Vec
\* (as the String of Ok, or as the buffer of the IntoError), the Error
Result(m, t, v, e, n) ==
    [mem |-> m, tag |-> t, buf |-> v, err |-> e, scanned |-> n]

\* mutant: the null path forgets buf.clear()
IoFailure_NoClear(m, v, p) ==
    Result(m, "Err", v, IoError(p.errno), 0)

\* the null path: buf.clear(); Err(IntoError(last_os_error().into(), Some(buf)))
IoFailure(m, v, p) ==
    Result(m, "Err", VecClear(v), IoError(p.errno), 0)

\* mutant: the decode-failure path erases the buffer before wrapping it
Utf8Failure_Erasing(m, v, n) ==
    Result(ZeroizeVec(m, v).mem, "Err", ZeroizeVec(m, v).vec,
           Utf8Error(Utf8ValidUpTo(SubSeq(m, 1, v.len))), n)

\* mutant: a decode failure becomes the text of the bytes that decoded
Utf8Failure_Truncate(m, v, n) ==
    Result(m, "Ok", SetLen(v, Utf8ValidUpTo(SubSeq(m, 1, v.len))), NoError, n)

\* map_err: IntoError(err.utf8_error().into(), Some(err.into_bytes()))
Utf8Failure(m, v, n) ==
    Result(m, "Err", v, Utf8Error(Utf8ValidUpTo(SubSeq(m, 1, v.len))), n)

\* mutant: the String is built from a copy of the bytes
IntoSuccess_Copy(m, v, n) ==
    Result(m, "Ok", [v EXCEPT !.alloc = FALSE, !.cap = v.len], NoError, n)

\* mutant: the spare capacity after the terminator is zeroed on success
IntoSuccess_EraseSpare(m, v, n) ==
    Result([i \in 1..Len(m) |-> IF i > v.len THEN 0 ELSE m[i]], "Ok", v,
           NoError, n)

\* String::from_utf8(buf) is Ok: the Vec becomes the String
IntoSuccess(m, v, n) ==
    Result(m, "Ok", v, NoError, n)

\* readpassphrase_into(prompt, buf, flags), the primitive doing p:
\* m is the allocation and v the Vec moved in
ReadpassphraseIntoResult(m, v, p) ==
    LET bufsiz == v.cap
        m1 == PrimWrite(m, p)
        nul_pos == ScanNul(m1, bufsiz)
        n == Scanned(m1, bufsiz)
        v1 == SetLen(v, nul_pos)
    IN  IF p.null THEN IoFailure(m1, v, p)
        ELSE IF nul_pos = NoPos THEN Result(m1, "Panic", NoVec, NoError, n)
        ELSE IF IsUtf8(SubSeq(m1, 1, nul_pos)) THEN IntoSuccess(m1, v1, n)
        ELSE Utf8Failure(m1, v1, n)

\* mutant: the borrow shape zeroes the slice before returning an error
ReadpassphraseResult_Erasing(m, v, p) ==
    LET bufsiz == v.len
        m1 == PrimWrite(m, p)
        z == [i \in 1..Len(m1) |-> IF i <= bufsiz THEN 0 ELSE m1[i]]
        nul_pos == ScanNul(m1, bufsiz)
        n == Scanned(m1, bufsiz)
    IN  IF p.null THEN Result(z, "Err", NoVec, IoError(p.errno), 0)
        ELSE IF nul_pos = NoPos THEN Result(m1, "Panic", NoVec, NoError, n)
        ELSE IF IsUtf8(SubSeq(m1, 1, nul_pos))
             THEN Result(m1, "Ok", SetLen(v, nul_pos), NoError, n)
        ELSE Result(z, "Err", NoVec,
                    Utf8Error(Utf8ValidUpTo(SubSeq(m1, 1, nul_pos))), n)

\* readpassphrase(prompt, buf, flags) on the slice of the caller's Vec, the
\* primitive doing p; buf of the result is the borrowed &str (its length)
ReadpassphraseResult(m, v, p) ==
    LET bufsiz == v.len
        m1 == PrimWrite(m, p)
        nul_pos == ScanNul(m1, bufsiz)
        n == Scanned(m1, bufsiz)
    IN  IF p.null THEN Result(m1, "Err", NoVec, IoError(p.errno), 0)
        ELSE IF nul_pos = NoPos THEN Result(m1, "Panic", NoVec, NoError, n)
        ELSE IF IsUtf8(SubSeq(m1, 1, nul_pos))
             THEN Result(m1, "Ok", SetLen(v, nul_pos), NoError, n)
        ELSE Result(m1, "Err", NoVec,
                    Utf8Error(Utf8ValidUpTo(SubSeq(m1, 1, nul_pos))), n)

----------------------------------------------------------------------------
(* IntoError *)

\* mutant: take hands out the buffer and leaves it in the error as well
TakeResult_Keep(b) ==
    [out |-> IF b.some THEN b ELSE EmptyVec, left |-> b, panic |-> FALSE]

\* IntoError::take: self.1.take().unwrap_or_default()
TakeResult(b) ==
    [out |-> IF b.some THEN b ELSE EmptyVec, left |-> NoVec, panic |-> FALSE]

\* mutant: into_bytes hands out the buffer and leaves it in the error, whose
\* destructor then runs on it
IntoBytesResult_Keep(b) ==
    [out |-> b, left |-> b, panic |-> ~b.some]

\* mutant: into_bytes clears the buffer it hands out
IntoBytesResult_Cleared(b) ==
    [out |-> VecClear(b), left |-> NoVec, panic |-> ~b.some]

\* IntoError::into_bytes: self.1.take().unwrap(), which panics on None
IntoBytesResult(b) ==
    [out |-> b, left |-> NoVec, panic |-> ~b.some]

\* mutant: the destructor releases the buffer without zeroing it
DropResult_NoZeroize(m, b) ==
    IF b.some
    THEN [mem |-> m, left |-> NoVec, freed |-> IF b.alloc THEN 1 ELSE 0]
    ELSE [mem |-> m, left |-> NoVec, freed |-> 0]

\* Drop for IntoError: self.1.take().as_mut().map(Zeroize::zeroize); the
\* Vec taken out is then released
DropResult(m, b) ==
    IF b.some
    THEN [mem |-> ZeroizeVec(m, b).mem, left |-> NoVec,
          freed |-> IF b.alloc THEN 1 ELSE 0]
    ELSE [mem |-> m, left |-> NoVec, freed |-> 0]

\* mutant: the conversion returns what is in the value after the replace
ConvertResult_Swapped(e) == [out |-> Placeholder, left |-> e]

\* From<IntoError> for Error: mem::replace(&mut value.0, Io(Other))
ConvertResult(e) == [out |-> e, left |-> Placeholder]

----------------------------------------------------------------------------
(* The state machine *)

\* The caller holds a Vec of capacity c and length l, every byte `f`, or
\* holds no buffer and will call getpass.
Init ==
    /\ stale \in StaleBytes
    /\ \/ \E c \in 0..MaxCap : \E l \in 0..c :
              /\ cap = c
              /\ callerBuf = Handle(l, c)
       \/ /\ cap = 0
          /\ callerBuf = NoVec
    /\ mem = [i \in 1..cap |-> stale]
    /\ okText = NoVec
    /\ errBuf = NoVec
    /\ err0 = NoError
    /\ errState = "none"
    /\ reclaims = <<>>
    /\ frees = 0
    /\ ret = NoRet
    /\ prim = NoPrim
    /\ pc = "start"
    /\ op = "init"

\* readpassphrase_into(prompt, buf, flags): the caller's Vec is moved in
ReadpassphraseInto ==
    /\ pc = "start"
    /\ callerBuf.some
    /\ \E p \in PrimOutcomes(callerBuf.cap) :
          LET r == ReadpassphraseIntoResult(mem, callerBuf, p)
          IN  /\ prim' = p
              /\ mem' = r.mem
              /\ callerBuf' = NoVec
              /\ okText' = IF r.tag = "Ok" THEN r.buf ELSE NoVec
              /\ errBuf' = IF r.tag = "Err" THEN r.buf ELSE NoVec
              /\ err0' = IF r.tag = "Err" THEN r.err ELSE NoError
              /\ errState' = IF r.tag = "Err" THEN "live" ELSE "none"
              \* a panic unwinds through the frame owning buf
              /\ frees' = IF r.tag = "Panic" THEN frees + 1 ELSE frees
              /\ ret' = [tag |-> r.tag, len |-> r.buf.len, err |-> NoError,
                         scanned |-> r.scanned]
    /\ pc' = "returned"
    /\ op' = "readpassphrase_into"
    /\ UNCHANGED <<cap, stale, reclaims>>

\* readpassphrase(prompt, &mut buf, flags): the caller keeps its Vec
Readpassphrase ==
    /\ pc = "start"
    /\ callerBuf.some
    /\ \E p \in PrimOutcomes(callerBuf.len) :
          LET r == ReadpassphraseResult(mem, callerBuf, p)
          IN  /\ prim' = p
              /\ mem' = r.mem
              /\ ret' = [tag |-> r.tag, len |-> r.buf.len, err |-> r.err,
                         scanned |-> r.scanned]
    /\ pc' = "borrowed"
    /\ op' = "readpassphrase"
    /\ UNCHANGED <<cap, stale, callerBuf, okText, errBuf, err0, errState,
                   reclaims, frees>>

\* getpass(prompt): Vec::with_capacity(PASSWORD_LEN), readpassphrase_into,
\* and `?`, which converts the IntoError and drops it
Getpass ==
    /\ pc = "start"
    /\ ~callerBuf.some
    /\ \E p \in PrimOutcomes(PASSWORD_LEN) :
          LET m0 == [i \in 1..PASSWORD_LEN |-> stale]
              r == ReadpassphraseIntoResult(m0, Handle(0, PASSWORD_LEN), p)
              c == ConvertResult(r.err)
              d == DropResult(r.mem, r.buf)
          IN  /\ prim' = p
              /\ cap' = PASSWORD_LEN
              /\ okText' = IF r.tag = "Ok" THEN r.buf ELSE NoVec
              /\ IF r.tag = "Err"
                 THEN /\ mem' = d.mem
                      /\ errBuf' = d.left
                      /\ err0' = c.left
                      /\ errState' = "dropped"
                      /\ frees' = frees + d.freed
                      /\ ret' = [tag |-> "Err", len |-> 0, err |-> c.out,
                                 scanned |-> r.scanned]
                 ELSE /\ mem' = r.mem
                      /\ errBuf' = NoVec
                      /\ err0' = NoError
                      /\ errState' = "none"
                      /\ frees' = IF r.tag = "Panic" THEN frees + 1 ELSE frees
                      /\ ret' = [tag |-> r.tag, len |-> r.buf.len,
                                 err |-> NoError, scanned |-> r.scanned]
    /\ pc' = "gotpass"
    /\ op' = "getpass"
    /\ UNCHANGED <<stale, callerBuf, reclaims>>

\* e.take()
Take ==
    /\ errState = "live"
    /\ Len(reclaims) < MaxReclaims
    /\ LET t == TakeResult(errBuf)
       IN  /\ reclaims' = Append(reclaims,
                  [op |-> "take", panic |-> t.panic, vec |-> t.out])
           /\ errBuf' = t.left
    /\ op' = "take"
    /\ UNCHANGED <<mem, cap, stale, callerBuf, okText, err0, errState, frees,
                   ret, prim, pc>>

\* e.into_bytes(): consumes the IntoError, whose destructor runs at the end
\* of the call or while the panic unwinds
IntoBytes ==
    /\ errState = "live"
    /\ Len(reclaims) < MaxReclaims
    /\ LET t == IntoBytesResult(errBuf)
           d == DropResult(mem, t.left)
       IN  /\ reclaims' = Append(reclaims,
                  [op |-> "into_bytes", panic |-> t.panic,
                   vec |-> IF t.panic THEN NoVec ELSE t.out])
           /\ errBuf' = d.left
           /\ mem' = d.mem
           /\ frees' = frees + d.freed
           /\ ret' = IF t.panic THEN [NoRet EXCEPT !.tag = "Panic"] ELSE ret
    /\ errState' = "dropped"
    /\ op' = "into_bytes"
    /\ UNCHANGED <<cap, stale, callerBuf, okText, err0, prim, pc>>

\* the IntoError goes out of scope
DropIntoError ==
    /\ errState = "live"
    /\ LET d == DropResult(mem, errBuf)
       IN  /\ mem' = d.mem
           /\ errBuf' = d.left
           /\ frees' = frees + d.freed
    /\ errState' = "dropped"
    /\ op' = "drop"
    /\ UNCHANGED <<cap, stale, callerBuf, okText, err0, reclaims, ret, prim,
                   pc>>

\* Error::from(e), e.into(): the IntoError is consumed and dropped
FromIntoError ==
    /\ errState = "live"
    /\ LET c == ConvertResult(err0)
           d == DropResult(mem, errBuf)
       IN  /\ ret' = [tag |-> "Err", len |-> 0, err |-> c.out,
                      scanned |-> ret.scanned]
           /\ err0' = c.left
           /\ mem' = d.mem
           /\ errBuf' = d.left
           /\ frees' = frees + d.freed
    /\ errState' = "dropped"
    /\ op' = "from"
    /\ UNCHANGED <<cap, stale, callerBuf, okText, reclaims, prim, pc>>

\* buf.zeroize() on the Vec the caller kept through the borrow shape
ZeroizeCallerBuf ==
    /\ pc = "borrowed"
    /\ callerBuf.some
    /\ LET z == ZeroizeVec(mem, callerBuf)
       IN  /\ mem' = z.mem
           /\ callerBuf' = z.vec
    /\ op' = "zeroize_vec"
    /\ UNCHANGED <<cap, stale, okText, errBuf, err0, errState, reclaims,
                   frees, ret, prim, pc>>

\* buf.zeroize() on the buffer reclaimed from the IntoError
ZeroizeReclaimed ==
    /\ \E i \in 1..Len(reclaims) :
          /\ reclaims[i].vec.alloc
          /\ LET z == ZeroizeVec(mem, reclaims[i].vec)
             IN  /\ mem' = z.mem
                 /\ reclaims' = [reclaims EXCEPT ![i].vec = z.vec]
    /\ op' = "zeroize_vec"
    /\ UNCHANGED <<cap, stale, callerBuf, okText, errBuf, err0, errState,
                   frees, ret, prim, pc>>

\* pass.zeroize() on the returned String
ZeroizeText ==
    /\ okText.some
    /\ LET z == ZeroizeString(mem, okText)
       IN  /\ mem' = z.mem
           /\ okText' = z.vec
    /\ op' = "zeroize_string"
    /\ UNCHANGED <<cap, stale, callerBuf, errBuf, err0, errState, reclaims,
                   frees, ret, prim, pc>>

Next ==
    \/ ReadpassphraseInto
    \/ Readpassphrase
    \/ Getpass
    \/ Take
    \/ IntoBytes
    \/ DropIntoError
    \/ FromIntoError
    \/ ZeroizeCallerBuf
    \/ ZeroizeReclaimed
    \/ ZeroizeText

Spec == Init /\ [][Next]_vars

----------------------------------------------------------------------------
(* Properties *)

\* the allocation as it was before the entry call
InitialMem == [i \in 1..cap |-> stale]

\* readpassphrase_into has just returned an IntoError
IntoFailed == op = "readpassphrase_into" /\ ret.tag = "Err"

\* the length the buffer has inside the IntoError: 0 after the null path,
\* the terminator position after a decode failure
FailureLen == IF prim.null THEN 0 ELSE Len(prim.run)

\* into_bytes was called right after the failing call and gave the buffer
ReclaimedAtOnce ==
    /\ op = "into_bytes"
    /\ Len(reclaims) = 1
    /\ ~reclaims[1].panic

\* C1 (as stated): when readpassphrase_into returns an IntoError, every byte
\* of the buffer's capacity is zero.
C1_ZeroAtReturn == IntoFailed => AllZero(mem)

\* C1 (amended): when readpassphrase_into returns an IntoError the buffer is
\* inside it and no byte of it has been erased: the allocation holds exactly
\* what the primitive left in it.
C1_NotErasedAtReturn ==
    IntoFailed =>
        /\ errBuf.some /\ errBuf.alloc
        /\ mem = PrimWrite(InitialMem, prim)
        /\ \A i \in 1..Len(prim.run) : mem[i] = prim.run[i]

\* a decode failure has returned and the undecoded bytes are in the buffer
C1_Witness ==
    /\ IntoFailed
    /\ err0.variant = "Utf8"
    /\ Len(prim.run) >= 1
    /\ mem[1] # 0

\* C2 (as stated): the buffer inside the returned IntoError has length 0,
\* for both kinds, and into_bytes right after yields a buffer of length 0
\* and the original capacity.
C2_LengthZero ==
    /\ IntoFailed => errBuf.len = 0
    /\ ReclaimedAtOnce =>
           reclaims[1].vec.len = 0 /\ reclaims[1].vec.cap = cap

\* C2 (amended): the buffer inside the returned IntoError has the original
\* capacity; its length is 0 after an Io failure and the terminator
\* position (at least 1) after a Utf8 failure, and into_bytes right after
\* yields the buffer with that length and capacity.
C2_LengthByKind ==
    /\ IntoFailed =>
           /\ errBuf.cap = cap
           /\ errBuf.len = FailureLen
           /\ (err0.variant = "Io") = prim.null
           /\ err0.variant = "Io" => errBuf.len = 0
           /\ err0.variant = "Utf8" => errBuf.len >= 1
    /\ ReclaimedAtOnce =>
           /\ reclaims[1].vec.alloc
           /\ reclaims[1].vec.len = FailureLen
           /\ reclaims[1].vec.cap = cap

\* into_bytes right after a decode failure gave a buffer of positive length
C2_Witness ==
    /\ ReclaimedAtOnce
    /\ err0.variant = "Utf8"
    /\ reclaims[1].vec.len >= 1
    /\ reclaims[1].vec.cap = cap

\* the IntoError of a transfer-shape call is gone and was never reclaimed
DroppedUnreclaimed ==
    /\ pc = "returned"
    /\ errState = "dropped"
    /\ reclaims = <<>>

\* C3: an IntoError whose buffer was never reclaimed leaves, at the end of
\* its lifetime, every byte of the buffer's capacity zero in the allocation
\* it releases, whatever the primitive wrote and whichever the failure kind.
C3_ErasedOnDrop ==
    DroppedUnreclaimed =>
        /\ AllZero(mem)
        /\ Len(mem) = cap
        /\ ~errBuf.some
        /\ frees = 1

\* an unreclaimed IntoError was dropped after the primitive wrote a secret
\* into a buffer that also held stale bytes
C3_Witness ==
    /\ DroppedUnreclaimed
    /\ op = "drop"
    /\ prim.wrote /\ Len(prim.run) >= 1
    /\ stale # 0
    /\ cap > Len(prim.run) + 1
    /\ frees = 1

\* C4 (as stated): the first reclaim returns the passed buffer and every
\* later reclaim attempt returns an empty, zero-capacity buffer.
C4_LaterReclaimsEmpty ==
    /\ Len(reclaims) >= 1 => reclaims[1].vec.alloc
    /\ \A i \in 2..Len(reclaims) :
           ~reclaims[i].panic /\ reclaims[i].vec = EmptyVec

\* C4 (amended): the first reclaim returns the passed buffer; every later
\* take returns an empty, zero-capacity buffer that does not alias it; an
\* into_bytes after a take returns no buffer, it panics; the buffer is
\* handed out at most once.
C4_ReclaimOnce ==
    /\ Len(reclaims) >= 1 =>
           /\ ~reclaims[1].panic
           /\ reclaims[1].vec.alloc
           /\ reclaims[1].vec.cap = cap
    /\ \A i \in 2..Len(reclaims) :
           /\ ~reclaims[i].vec.alloc
           /\ reclaims[i].op = "take" =>
                  ~reclaims[i].panic /\ reclaims[i].vec = EmptyVec
           /\ reclaims[i].op = "into_bytes" =>
                  reclaims[i].panic /\ ~reclaims[i].vec.some
    /\ Cardinality({i \in 1..Len(reclaims) : reclaims[i].vec.alloc}) <= 1

\* take, take, into_bytes: the buffer, an empty Vec, a panic
C4_Witness ==
    /\ Len(reclaims) = 3
    /\ reclaims[1].op = "take" /\ reclaims[1].vec.alloc
    /\ reclaims[2].op = "take" /\ reclaims[2].vec = EmptyVec
    /\ reclaims[3].op = "into_bytes" /\ reclaims[3].panic

\* an entry call has just returned that was given a buffer of size 0
ZeroSizeCall ==
    \/ op = "readpassphrase_into" /\ cap = 0
    \/ op = "readpassphrase" /\ callerBuf.len = 0

\* the Error of the entry call that has just returned
CallError == IF op = "readpassphrase_into" THEN err0 ELSE ret.err

\* C5 (as stated): with capacity 0 (transfer shape) or length 0 (borrow
\* shape) the call fails with Error::Io of kind InvalidInput whatever the
\* primitive does, without scanning and without a panic.
C5_ZeroSizeAlwaysInvalidInput ==
    ZeroSizeCall =>
        /\ ret.tag = "Err"
        /\ IoKind(CallError) = "InvalidInput"
        /\ ret.scanned = 0

\* C5 (amended): with capacity 0 or length 0 the layer passes size 0 to the
\* primitive and checks nothing itself: when the primitive returns null the
\* call fails with Error::Io carrying the primitive's error (InvalidInput
\* for EINVAL); when it returns non-null the terminator search finds
\* nothing and the call panics; in both cases no byte is read or written.
C5_ZeroSizeFollowsPrimitive ==
    ZeroSizeCall =>
        /\ ret.scanned = 0
        /\ mem = InitialMem
        /\ prim.null =>
               /\ ret.tag = "Err"
               /\ CallError = IoError(prim.errno)
               /\ prim.errno = "EINVAL" => IoKind(CallError) = "InvalidInput"
        /\ ~prim.null => ret.tag = "Panic"

\* the primitive returned non-null for size 0 and the call panicked
C5_Witness ==
    /\ ZeroSizeCall
    /\ ~prim.null
    /\ ret.tag = "Panic"

\* C6: with capacity C >= 1 a successful call returns text of at most C - 1
\* bytes: C is buf.capacity() for readpassphrase_into, buf.len() for
\* readpassphrase and 256 for getpass.
C6_TextShorterThanCapacity ==
    /\ (op = "readpassphrase_into" /\ ret.tag = "Ok") =>
           okText.len <= cap - 1 /\ ret.len = okText.len
    /\ (op = "readpassphrase" /\ ret.tag = "Ok") =>
           ret.len <= callerBuf.len - 1
    /\ (op = "getpass" /\ ret.tag = "Ok") =>
           okText.len <= PASSWORD_LEN - 1 /\ ret.len = okText.len

\* getpass returned a text that fills the buffer up to the terminator
C6_Witness ==
    /\ op = "getpass"
    /\ ret.tag = "Ok"
    /\ okText.len = PASSWORD_LEN - 1

\* C7: when the primitive succeeds and the bytes before the first zero byte
\* are valid UTF-8, readpassphrase_into returns a String with exactly those
\* bytes, of length the position of the zero byte, on the allocation and
\* capacity of the buffer passed in, no byte having been copied or changed.
C7_TextIsTheBuffer ==
    (op = "readpassphrase_into" /\ prim.wrote /\ ~prim.null
         /\ IsUtf8(prim.run)) =>
        /\ ret.tag = "Ok"
        /\ okText.some /\ okText.alloc
        /\ okText.cap = cap
        /\ okText.len = Len(prim.run)
        /\ SubSeq(mem, 1, okText.len) = prim.run
        /\ mem[okText.len + 1] = 0
        /\ mem = PrimWrite(InitialMem, prim)
        /\ frees = 0

\* the two bytes of U+00E9 and the terminator in a buffer of capacity 3
C7_Witness ==
    /\ op = "readpassphrase_into"
    /\ cap = 3
    /\ prim.run = <<195, 169>>
    /\ ret.tag = "Ok"
    /\ okText.len = 2
    /\ mem = <<195, 169, 0>>

\* the Error the transfer shape reports for what the primitive did
ReportedError ==
    IF prim.null THEN IoError(prim.errno)
    ELSE Utf8Error(Utf8ValidUpTo(prim.run))

\* C8: getpass runs the transfer shape on its own buffer of capacity 256;
\* on failure it returns the transfer shape's Error, never the placeholder
\* Io(Other), and every byte of its buffer has been zeroed by the drop of
\* the IntoError by the time it returns.
C8_GetpassErrorAndErase ==
    op = "getpass" =>
        /\ cap = PASSWORD_LEN /\ Len(mem) = PASSWORD_LEN
        /\ ret.tag \in {"Ok", "Err"}
        /\ ret.tag = "Err" =>
               /\ ret.err = ReportedError
               /\ ret.err # Placeholder
               /\ ret.err.variant = (IF prim.null THEN "Io" ELSE "Utf8")
               /\ AllZero(mem)
               /\ errState = "dropped" /\ ~errBuf.some
               /\ frees = 1

\* getpass failed on undecodable input in a buffer that held stale bytes
C8_Witness ==
    /\ op = "getpass"
    /\ ret.tag = "Err"
    /\ ret.err.variant = "Utf8"
    /\ Len(prim.run) >= 1
    /\ stale # 0

\* the owners of the allocation
Holders ==
    (IF callerBuf.some /\ callerBuf.alloc THEN 1 ELSE 0)
    + (IF okText.some /\ okText.alloc THEN 1 ELSE 0)
    + (IF errBuf.some /\ errBuf.alloc THEN 1 ELSE 0)
    + Cardinality({i \in 1..Len(reclaims) : reclaims[i].vec.alloc})

\* the caller owns the buffer, as the text or as the reclaimed buffer
CallerOwns ==
    \/ okText.some /\ okText.alloc
    \/ \E i \in 1..Len(reclaims) : reclaims[i].vec.alloc

\* after a transfer-shape call: one owner and no release, or no owner and
\* one release; once the IntoError is gone the buffer is the returned
\* text, the reclaimed buffer, or released (erased, when an IntoError held
\* it)
OneDisposal ==
    pc \in {"returned", "gotpass"} =>
        /\ Holders + frees = 1
        /\ ~callerBuf.some
        /\ errState # "live" =>
               \/ okText.some /\ okText.alloc /\ frees = 0
               \/ CallerOwns /\ ~okText.some /\ frees = 0
               \/ Holders = 0 /\ frees = 1
                      /\ (errState = "dropped" => AllZero(mem))

\* C9: after a transfer-shape call and any reclaim, conversion and drop,
\* the buffer has exactly one disposal (the returned text, the buffer
\* reclaimed from the error, or erased and freed; until then it is inside
\* the IntoError); it never has two owners, is never freed twice, and no
\* operation of the library writes to it once the caller owns it.
C9_ExclusiveDisposal ==
    /\ []OneDisposal
    /\ [][(CallerOwns /\ op' \notin {"zeroize_vec", "zeroize_string"})
              => (mem' = mem /\ frees' = frees)]_vars

\* the IntoError was dropped after its buffer had been taken: the caller's
\* buffer still holds the primitive's bytes and was not released
C9_Witness ==
    /\ pc = "returned"
    /\ op = "drop"
    /\ Len(reclaims) >= 1 /\ reclaims[1].vec.alloc
    /\ Holders = 1
    /\ frees = 0
    /\ cap >= 1 /\ mem[1] # 0

\* C10: zeroize on a Vec<u8> or String of any length L and capacity C
\* leaves the length 0 and all C bytes zero, those between L and C too.
C10_ZeroizeWholeCapacity ==
    op \in {"zeroize_vec", "zeroize_string"} =>
        /\ Len(mem) = cap
        /\ AllZero(mem)
        /\ callerBuf.some => callerBuf.len = 0
        /\ okText.some => okText.len = 0
        /\ \A i \in 1..Len(reclaims) :
               reclaims[i].vec.alloc => reclaims[i].vec.len = 0

\* a reclaimed buffer of length 1 and capacity 3, with a stale byte beyond
\* its terminator, was zeroized
C10_Witness ==
    /\ op = "zeroize_vec"
    /\ pc = "returned"
    /\ err0.variant = "Utf8"
    /\ Len(prim.run) = 1
    /\ cap = 3
    /\ stale # 0
    /\ AllZero(mem)

\* an entry call of either shape has just returned
EntryReturned == op \in {"readpassphrase_into", "readpassphrase"}

\* the primitive returned non-null, having written a secret and its
\* terminator
PrimSucceeded == ~prim.null /\ prim.wrote

\* C11: for both entry shapes the primitive's result decides the outcome:
\* null gives an Io error; non-null with bytes before the terminator that
\* are not valid UTF-8 gives a Utf8 error and no text, truncated or partial;
\* non-null with valid UTF-8 gives the whole text.
C11_OutcomeFollowsPrimitive ==
    EntryReturned =>
        /\ prim.null =>
               /\ ret.tag = "Err"
               /\ CallError.variant = "Io"
               /\ ~okText.some
        /\ (PrimSucceeded /\ ~IsUtf8(prim.run)) =>
               /\ ret.tag = "Err"
               /\ CallError.variant = "Utf8"
               /\ CallError.valid_up_to < Len(prim.run)
               /\ ~okText.some
        /\ (PrimSucceeded /\ IsUtf8(prim.run)) =>
               /\ ret.tag = "Ok"
               /\ ret.len = Len(prim.run)
               /\ SubSeq(mem, 1, ret.len) = prim.run

\* the transfer shape reported a Utf8 error for bytes whose first byte
\* decodes ('a' followed by a lone lead byte): no text was returned
C11_Witness ==
    /\ op = "readpassphrase_into"
    /\ prim.run = <<97, 195>>
    /\ ret.tag = "Err"
    /\ err0 = Utf8Error(1)
    /\ ~okText.some

\* C12: after a Utf8 failure of the transfer shape, into_bytes called
\* before the error is discarded gives the caller the undecoded bytes the
\* primitive read, in order, and the destruction of the consumed error
\* neither erases nor alters nor releases the reclaimed buffer.
C12_RawBytesReclaimed ==
    (ReclaimedAtOnce /\ err0.variant = "Utf8") =>
        /\ errState = "dropped"
        /\ reclaims[1].vec.some /\ reclaims[1].vec.alloc
        /\ reclaims[1].vec.len = Len(prim.run)
        /\ SubSeq(mem, 1, reclaims[1].vec.len) = prim.run
        /\ ~IsUtf8(SubSeq(mem, 1, reclaims[1].vec.len))
        /\ mem = PrimWrite(InitialMem, prim)
        /\ ~errBuf.some
        /\ frees = 0

\* into_bytes after U+00E9 cut short by a second lead byte: the three raw
\* bytes are in the reclaimed buffer and the error is gone
C12_Witness ==
    /\ ReclaimedAtOnce
    /\ err0 = Utf8Error(2)
    /\ errState = "dropped"
    /\ prim.run = <<195, 169, 195>>
    /\ reclaims[1].vec.len = 3
    /\ SubSeq(mem, 1, 3) = <<195, 169, 195>>

\* the borrow shape has just returned an error
BorrowFailed == op = "readpassphrase" /\ ret.tag = "Err"

\* C13: the borrow shape readpassphrase writes nothing to the caller's
\* buffer itself: after it returns an Io or a Utf8 error the buffer holds
\* exactly the bytes the primitive left in it, secret bytes included, and
\* is still the caller's, with its capacity.
C13_BorrowLeavesBuffer ==
    BorrowFailed =>
        /\ ret.err.variant \in {"Io", "Utf8"}
        /\ mem = PrimWrite(InitialMem, prim)
        /\ \A i \in 1..Len(prim.run) : mem[i] = prim.run[i]
        /\ callerBuf.some /\ callerBuf.alloc
        /\ callerBuf.cap = cap
        /\ Len(mem) = cap
        /\ frees = 0

\* the primitive failed after reading a byte of the secret, which is still
\* in the caller's buffer when the borrow shape returns the Io error
C13_Witness ==
    /\ BorrowFailed
    /\ ret.err.variant = "Io"
    /\ prim.wrote /\ Len(prim.run) >= 1
    /\ mem[1] = prim.run[1]
    /\ mem[1] # 0

\* the transfer shape has just returned a String
IntoSucceeded == op = "readpassphrase_into" /\ ret.tag = "Ok"

\* C14: on success readpassphrase_into changes no byte of the capacity at
\* or after the terminator position: the terminator is the primitive's and
\* every byte after it is what the allocation held before the call, so
\* stale bytes stay in the spare capacity of the returned String.
C14_SpareCapacityKept ==
    IntoSucceeded =>
        /\ okText.some /\ okText.alloc
        /\ okText.len + 1 <= cap
        /\ mem[okText.len + 1] = 0
        /\ \A i \in (okText.len + 2)..cap : mem[i] = stale
        /\ \A i \in (okText.len + 1)..cap :
               mem[i] = PrimWrite(InitialMem, prim)[i]

\* a one-byte text in a buffer of capacity at least 3 whose last byte still
\* holds the non-zero byte it held before the call
C14_Witness ==
    /\ IntoSucceeded
    /\ okText.len = 1
    /\ cap >= 3
    /\ stale # 0
    /\ mem[cap] = stale

====
